---- MODULE Spec2Model ----
(***************************************************************************)
(* Model of the videoPano stitching pipeline: the useStitcher hook         *)
(* (src/src/hooks/useStitcher.ts) as driven by a caller that awaits        *)
(* stitchFrames the way processStitching does                              *)
(* (src/src/components/OpenCVStitcher.tsx): Spec, and FairSpec for what    *)
(* eventually happens. SpecCapture is startCapture of PanoramaCapture      *)
(* (src/src/components/PanoramaCapture.tsx), SpecApp the App component     *)
(* with the effect of OpenCVStitcher.                                      *)
(*                                                                         *)
(* JavaScript runs handlers to completion, so one action is one task of    *)
(* the event loop together with the microtasks (promise continuations) it  *)
(* triggers: the call of stitchFrames up to its first await, the load or   *)
(* error event of one frame image up to the next await or the end of the   *)
(* call, and the 2 s timer that resets the progress.                       *)
(*                                                                         *)
(* Percentages such as 10 + (i / n) * 20 are kept as exact fractions       *)
(* num/den.                                                                *)
(***************************************************************************)
EXTENDS Integers, Sequences, FiniteSets, TLC

\* ---------------------------------------------------------------- bounds
MaxFrames == 3     \* longest frame list handed to stitchFrames
MaxDim == 2        \* largest width / height of a decoded frame
MaxPano == 3       \* largest width of an image returned by cv.Stitcher
MaxTimers == 2     \* most progress-reset timers pending at once
MaxRuns == 2       \* most capture runs started on one PanoramaCapture
MaxInFlight == 2   \* most stitchFrames calls pending at once in the App
MaxPolls == 3      \* polling ticks without result before the 30 s timer fires
MaxRequests == 3   \* most startCamera calls that get past the first test

\* ------------------------------------------------- the program's constants
FrameCount == 18     \* const frameCount = 18
CountdownFrom == 3   \* setCountdown(3); for (let i = 3; i > 0; i--)

\* ------------------------------------------------------------ data model
None == <<>>
Some(x) == <<x>>

\* A frame is a data URL; what the model keeps of it is the size of the
\* image it decodes to (cv.imread gives a Mat of that size).
Frames == {f \in [w : 1..MaxDim, h : 1..MaxDim] : f.w + f.h <= MaxDim + 1}

FrameSeqs == UNION {[1..n -> Frames] : n \in 0..MaxFrames}

\* Sizes of the image cv.Stitcher may return.
PanoSizes == [cols : 1..MaxPano, rows : {1, MaxPano}]

StageOrder == <<"loading", "preprocessing", "detecting", "matching",
                "warping", "blending", "complete">>

StageIdx(s) == CHOOSE k \in 1..Len(StageOrder) : StageOrder[k] = s

\* The argument of one setProgress call: stage and percent (= num/den).
Ev(stage, num, den) == [stage |-> stage, num |-> num, den |-> den]

ErrNotLoaded == "OpenCV not loaded"
ErrTooFew == "Need at least 2 frames to stitch"
ErrFrameLoad == "Failed to load frame"
ErrImread == "imread failed"
ErrStatus == "Stitching failed with status"
ErrRoi == "roi out of range"
ErrProjection == "resize or imencode failed"

\* ----------------------------------------------------------------- state
\*  cvLoaded     isLoaded && cv of useOpenCV, as seen by stitchFrames
\*  hasStitcher  cv.Stitcher_create && cv.Stitcher_PANORAMA !== undefined
\*  isStitching, progress, error   the state of the useStitcher hook
\*  timers       pending setTimeout(() => setProgress(null), 2000)
\*  frames       the frame list the caller holds and hands to stitchFrames
\*               (the frames prop of OpenCVStitcher)
\*  call         the latest stitchFrames call: its locals, the setProgress
\*               calls it made (events), and what its caller received
\*  app          the state of the App component: state, panorama, error
\*               (its frames state is the variable frames)
\*  cap          the PanoramaCapture component and its startCapture run
\*  stitcher     the OpenCVStitcher component: its effect and the
\*               stitchFrames calls the effect has in flight
VARIABLES cvLoaded, hasStitcher, isStitching, progress, error, timers,
          frames, call, app, cap, stitcher

vars == <<cvLoaded, hasStitcher, isStitching, progress, error, timers,
          frames, call, app, cap, stitcher>>

\* The components outside the call that Spec follows.
others == <<cap, stitcher>>

NoCall == [pc |-> "idle", frames |-> <<>>, i |-> 0, images |-> <<>>,
           events |-> <<>>, featureAttempts |-> 0, status |-> "none",
           fallbackRuns |-> 0,
           composite |-> None, placements |-> <<>>, canvas |-> None,
           equirect |-> None, outcome |-> "pending", errorMsg |-> None,
           panorama |-> None, delivered |-> "none", wasLoaded |-> FALSE,
           live |-> {}]

\* The Mats a call has created and not deleted (the field live) are named
\* <<"image", i>> for the Mat of frame i, and as follows.
ResultMat == <<"result", 0>>
EquirectMat == <<"equirect", 0>>

\* ------------------------------------------------------ the App handlers
M_handleStitchedNoPanorama(a, panoramaUrl) ==
    [a EXCEPT !.state = "viewing", !.error = None]

\* handleStitched: setPanorama, setState('viewing'), setError(null).
handleStitched(a, panoramaUrl) ==
    [a EXCEPT !.panorama = Some(panoramaUrl), !.state = "viewing",
              !.error = None]

M_handleErrorDropsPanorama(a, errorMessage) ==
    [a EXCEPT !.error = Some(errorMessage), !.panorama = None]

M_handleErrorResets(a, errorMessage) ==
    [a EXCEPT !.error = Some(errorMessage), !.panorama = None,
              !.state = "idle"]

\* handleError: setError({ message, timestamp }) and nothing else.
handleError(a, errorMessage) == [a EXCEPT !.error = Some(errorMessage)]

\* handleFramesCaptured: setFrames (the variable frames), then
\* setState('processing'), setError(null).
handleFramesCaptured(a) == [a EXCEPT !.state = "processing", !.error = None]

\* ------------------------------------------------------ PanoramaCapture
ErrCameraNotReady == "Camera not ready"
ErrNotEnough == "Failed to capture enough frames"

\* A percentage kept as the fraction num/den.
Pct(num, den) == [num |-> num, den |-> den]

\* PanoramaCapture before it is mounted. inst numbers the instances of the
\* component the App has mounted and loops holds every startCapture call
\* that got past its isActive test, of this and of earlier instances (used
\* where several calls are followed side by side). pc is the position of
\* startCapture ("idle", "countdown", "capturing", "done"), c and i its
\* loop variables, capturedFrames its local array. attempts, hits,
\* countdownLog and reports record what the current run did: the slots it
\* called captureFrame for, how many calls returned an image, the
\* arguments of setCountdown, the callbacks it invoked. unmountedAt is the
\* number of attempts made when the component was removed (-1 while it
\* never was).
\* The useCamera hook as captureFrame sees it: whether videoRef.current
\* and canvasRef.current exist, the video's readyState and size, whether
\* canvas.getContext('2d') gives a context, the size of the canvas and what
\* is drawn on it (None: never sized, nothing drawn). result is what the
\* last captureFrame call returned (a frame is kept as its size) and tick
\* flips at every call.
ReadyStates == {"HAVE_NOTHING", "HAVE_METADATA", "HAVE_CURRENT_DATA",
                "HAVE_FUTURE_DATA", "HAVE_ENOUGH_DATA"}

NoCamera ==
    [video |-> FALSE, canvas |-> FALSE, readyState |-> "HAVE_NOTHING",
     contextOk |-> TRUE, videoSize |-> [w |-> 1, h |-> 1],
     canvasSize |-> None, drawn |-> None, result |-> None, tick |-> FALSE]

M_CaptureFrameCallSizesFirst(cam) ==
    LET sized == [cam EXCEPT !.tick = ~cam.tick,
                             !.canvasSize = IF cam.canvas /\ cam.video
                                            THEN Some(cam.videoSize) ELSE @,
                             !.drawn = IF cam.canvas /\ cam.video
                                       THEN None ELSE @]
    IN IF ~cam.video \/ ~cam.canvas \/ cam.readyState # "HAVE_ENOUGH_DATA"
          \/ ~cam.contextOk
       THEN [sized EXCEPT !.result = None]
       ELSE [sized EXCEPT !.drawn = Some(cam.videoSize),
                          !.result = Some(cam.videoSize)]

\* captureFrame() with its effects (useCamera, lines 80-100): the early
\* return of null; else the canvas takes the size of the video (which
\* clears it), and with a context the frame is drawn and returned.
CaptureFrameCall(cam) ==
    LET called == [cam EXCEPT !.tick = ~cam.tick]
    IN IF ~cam.video \/ ~cam.canvas \/ cam.readyState # "HAVE_ENOUGH_DATA"
       THEN [called EXCEPT !.result = None]
       ELSE LET sized == [called EXCEPT !.canvasSize = Some(cam.videoSize),
                                        !.drawn = None]
            IN IF ~cam.contextOk
               THEN [sized EXCEPT !.result = None]
               ELSE [sized EXCEPT !.drawn = Some(cam.videoSize),
                                  !.result = Some(cam.videoSize)]

\* useCamera as startCamera and stopCamera see it: its state stream (a
\* stream is the number of the getUserMedia call that gave it), isActive
\* and error, and isRequestingRef.current. pending holds the position of
\* every startCamera call that is at an await ("getUserMedia",
\* "getUserMediaMinimal", "play"), live the streams whose tracks run,
\* accepted counts the calls that got past the first test, streams the
\* streams handed out, and outcome is how the last finished call ended
\* ("none", "resolved" or the message it threw). video tells whether
\* videoRef.current exists and api whether
\* navigator.mediaDevices.getUserMedia does.
ErrBusy == "Camera request already in progress"
ErrNoApi == "Camera API not available. Please use HTTPS or localhost."
ErrDenied ==
    "Camera permission denied. Please allow camera access in your browser settings."
ErrNoCamera == "No camera found. Please connect a camera and try again."

NoCameraHook ==
    [stream |-> None, isActive |-> FALSE, error |-> None,
     isRequesting |-> FALSE, pending |-> <<>>, live |-> {},
     accepted |-> 0, streams |-> 0, outcome |-> "none",
     video |-> TRUE, api |-> TRUE]

\* The message of the catch block for an error of the given name (lines
\* 213-225); an error with another name gives its own message, written
\* here as its name.
CameraErrorMessage(name) ==
    IF name \in {"NotAllowedError", "PermissionDeniedError"} THEN ErrDenied
    ELSE IF name \in {"NotFoundError", "DevicesNotFoundError"}
    THEN ErrNoCamera
    ELSE name

M_BusyNever(h) == FALSE

\* if (isRequestingRef.current)
Busy(h) == h.isRequesting

\* Without(q, k): the sequence q without its k-th element.
Without(q, k) == [j \in 1..(Len(q) - 1) |-> IF j < k THEN q[j] ELSE q[j + 1]]

\* The catch and finally blocks of a call that fails (lines 212-233); k is
\* its place in pending, 0 if it was never there.
CameraFailed(h, k, message) ==
    [h EXCEPT !.error = Some(message), !.isActive = FALSE,
              !.isRequesting = FALSE, !.outcome = message,
              !.pending = IF k = 0 THEN @ ELSE Without(@, k)]

\* The finally block of a call that returns.
CameraResolved(h, k) ==
    [h EXCEPT !.isRequesting = FALSE, !.outcome = "resolved",
              !.pending = Without(@, k)]

\* startCamera up to its first await (lines 146-184).
startCamera(h) ==
    IF Busy(h)
    THEN [h EXCEPT !.outcome = ErrBusy]
    ELSE LET h1 == [h EXCEPT
                      !.isRequesting = TRUE, !.error = None,
                      !.isActive = FALSE, !.accepted = @ + 1,
                      !.live = IF h.stream # None THEN @ \ {h.stream[1]}
                               ELSE @,
                      !.stream = None]
         IN IF ~h.api
            THEN CameraFailed(h1, 0, ErrNoApi)
            ELSE [h1 EXCEPT !.pending = Append(@, "getUserMedia")]

\* stopCamera (lines 236-245).
stopCamera(h) ==
    IF h.stream # None
    THEN [h EXCEPT !.live = @ \ {h.stream[1]}, !.stream = None,
                   !.isActive = FALSE]
    ELSE h

NoCapture ==
    [mounted |-> FALSE, isActive |-> FALSE, pc |-> "idle",
     camera |-> NoCamera, inst |-> 0, loops |-> <<>>,
     cameraHook |-> NoCameraHook,
     isCapturing |-> FALSE, progress |-> Pct(0, 1), countdown |-> None,
     frames |-> <<>>, capturedFrames |-> <<>>, c |-> 0, i |-> 0, run |-> 0,
     attempts |-> <<>>, hits |-> 0,
     countdownLog |-> <<>>, reports |-> <<>>, unmountedAt |-> -1]

\* A captured frame (a data URL) is named by the run and the slot of the
\* capture attempt that produced it.
FrameId(run, slot) == run * FrameCount + slot
RunOf(id) == id \div FrameCount
SlotOf(id) == id % FrameCount

Report(kind, fs, message) == [kind |-> kind, frames |-> fs, message |-> message]

M_NotReadyStartCountdown(c) ==
    [c EXCEPT !.reports = <<Report("onError", <<>>, "Camera not ready")>>,
              !.isCapturing = TRUE, !.countdown = Some(CountdownFrom)]

\* if (!isActive) { onError('Camera not ready'); return; }: the component
\* after that return, the callback being on record.
NotReadyStart(c) ==
    [c EXCEPT !.reports = <<Report("onError", <<>>, ErrCameraNotReady)>>]

M_StartFramesResume(previous) == previous

\* setFrames([]) and const capturedFrames: string[] = []: a run starts
\* with nothing of what the component held before.
StartFrames(previous) == <<>>

M_CountdownNextSame(i) == i

\* setCountdown(i - 1)
CountdownNext(i) == i - 1

\* captureFrame() of useCamera: null unless the video element exists and
\* has data to draw, else the data URL of the drawn frame.
captureFrame(videoPresent, haveEnoughData, id) ==
    IF videoPresent /\ haveEnoughData THEN Some(id) ELSE None

M_CollectFront(capturedFrames, frame) ==
    IF frame # None THEN <<frame[1]>> \o capturedFrames ELSE capturedFrames

M_CollectPlaceholder(capturedFrames, frame) ==
    Append(capturedFrames, IF frame # None THEN frame[1] ELSE -1)

\* if (frame) { capturedFrames.push(frame) }
Collect(capturedFrames, frame) ==
    IF frame # None THEN Append(capturedFrames, frame[1]) ELSE capturedFrames

M_CaptureProgressBefore(i) == Pct(i * 100, FrameCount)

\* setProgress(((i + 1) / frameCount) * 100)
CaptureProgress(i) == Pct((i + 1) * 100, FrameCount)

M_MoreSlotsShort(i) == i < FrameCount - 1

\* for (...; i < frameCount; ...)
MoreSlots(i) == i < FrameCount

M_EnoughFramesOne(capturedFrames) == Len(capturedFrames) >= 1

\* capturedFrames.length >= 2
EnoughFrames(capturedFrames) == Len(capturedFrames) >= 2

\* handleNewCapture: setState('idle'), setFrames([]) (the variable
\* frames), setPanorama(null), setError(null).
handleNewCapture(a) ==
    [a EXCEPT !.state = "idle", !.panorama = None, !.error = None]

\* OpenCVStitcher, rendered by the App while its state is 'processing'.
\* stale: a dependency of its effect (frames, stitchFrames, onStitched,
\* onError) changed since the effect last ran, or it never ran; the App's
\* handlers are new functions at every render of the App. seenLoaded: the
\* library state behind the stitchFrames the effect last ran with
\* (useCallback(..., [cv, isLoaded])). calls: the stitchFrames calls the
\* effect started that have not settled, each with the frames it was given
\* and whether it belongs to the capture session now processing.
\* useOpenCV in one component and the page around it. cv, isLoaded,
\* isLoading and error are the hook's state, pc the position of its
\* loadOpenCV call ("idle": none pending, "waitScript": the script it
\* appended has fired neither onload nor onerror, "waitInit": polling
\* window.cv.Mat after onload, "waitExisting": polling window.cv beside a
\* script that was already in the page), attempts the loadOpenCV calls of
\* this instance, inst its number and polls the ticks of the polling
\* interval that found nothing so far (the 30 s timer fires after MaxPolls
\* of them). windowCv is window.cv ("absent",
\* "partial": set but without Mat, "ready") and script the state of the
\* opencv.js script element of the page.
ErrScript == "Failed to load OpenCV.js"
ErrInitTimeout == "OpenCV initialization timeout"
ErrLoadTimeout == "OpenCV loading timeout"

NoOpenCV ==
    [cv |-> None, isLoaded |-> FALSE, isLoading |-> FALSE, error |-> None,
     pc |-> "idle", attempts |-> 0, inst |-> 1, polls |-> 0,
     windowCv |-> "absent", script |-> "none"]

NoStitcher ==
    [stale |-> FALSE, seenLoaded |-> FALSE, calls |-> <<>>,
     opencv |-> NoOpenCV]

Init ==
    /\ cvLoaded = FALSE
    /\ hasStitcher \in BOOLEAN
    /\ isStitching = FALSE
    /\ progress = None
    /\ error = None
    /\ timers = 0
    /\ frames \in FrameSeqs
    /\ call = NoCall
    /\ app = [state |-> "processing", panorama |-> None, error |-> None]
    /\ cap = NoCapture
    /\ stitcher = NoStitcher

\* useOpenCV: the library finishes loading (setCv, setIsLoaded(true)).
LoadOpenCV ==
    /\ ~cvLoaded
    /\ cvLoaded' = TRUE
    /\ UNCHANGED <<hasStitcher, isStitching, progress, error, timers,
                   frames, call, app, others>>

\* ------------------------------------------------- stitchFrames, the code
\* Entry checks, in the order of the code: the library, then the frames.
EntryError(loaded, fs) ==
    IF ~loaded THEN Some(ErrNotLoaded)
    ELSE IF Len(fs) < 2 THEN Some(ErrTooFew)
    ELSE None

LoadingEvent == Ev("loading", 0, 1)

PreprocessingStart == Ev("preprocessing", 10, 1)

\* Mutant of PreprocessingProgress: counts the frame being loaded as loaded.
M_PreprocessingProgressNext(i, n) ==
    Ev("preprocessing", 10 * n + (i + 1) * 20, n)

\* progress: 10 + (i / frames.length) * 20
PreprocessingProgress(i, n) == Ev("preprocessing", 10 * n + i * 20, n)

DetectingEvent == Ev("detecting", 30, 1)

\* Mutant of WarpingStart: the stage label of the previous loop is reused.
M_WarpingStartStage == Ev("preprocessing", 50, 1)

WarpingStart == Ev("warping", 50, 1)

\* Mutant of WarpingProgress: the division by images.length is forgotten.
M_WarpingProgressNoDiv(i, n) == Ev("warping", 50 + i * 30, 1)

\* progress: 50 + (i / images.length) * 30
WarpingProgress(i, n) == Ev("warping", 50 * n + i * 30, n)

BlendingEvent == Ev("blending", 80, 1)

CompleteEvent == Ev("complete", 100, 1)

\* Mutant of UseStitcher: the availability test is dropped.
M_UseStitcherAlways(available) == TRUE

\* if (cv.Stitcher_create && cv.Stitcher_PANORAMA !== undefined)
UseStitcher(available) == available

\* images.forEach(img => { totalWidth += img.cols;
\*                         maxHeight = Math.max(maxHeight, img.rows) })
RECURSIVE TotalWidth(_)
TotalWidth(images) ==
    IF images = <<>> THEN 0
    ELSE TotalWidth(SubSeq(images, 1, Len(images) - 1))
         + images[Len(images)].cols

Max(a, b) == IF a >= b THEN a ELSE b

RECURSIVE MaxHeight(_)
MaxHeight(images) ==
    IF images = <<>> THEN 0
    ELSE Max(MaxHeight(SubSeq(images, 1, Len(images) - 1)),
             images[Len(images)].rows)

\* Mutant of CanvasSize: maxHeight = img.rows, without Math.max.
M_CanvasSizeLastHeight(images) ==
    [cols |-> TotalWidth(images), rows |-> images[Len(images)].rows]

\* new cv.Mat(maxHeight, totalWidth, cv.CV_8UC4)
CanvasSize(images) ==
    [cols |-> TotalWidth(images), rows |-> MaxHeight(images)]

\* result.setTo(new cv.Scalar(0, 0, 0, 255)): every pixel is background.
\* A pixel is <<>> (background) or <<k, px, py>>: pixel (px, py) of image k.
BlankCanvas(size) ==
    [p \in (0..(size.cols - 1)) \X (0..(size.rows - 1)) |-> <<>>]

\* new cv.Rect(xOffset, 0, images[i].cols, images[i].rows)
RoiRect(xOffset, img) ==
    [x |-> xOffset, y |-> 0, w |-> img.cols, h |-> img.rows]

InRect(p, r) ==
    /\ r.x <= p[1] /\ p[1] < r.x + r.w
    /\ r.y <= p[2] /\ p[2] < r.y + r.h

\* images[i].copyTo(roi): the pixels of the roi become those of image k.
CopyTo(canvas, r, k) ==
    [p \in DOMAIN canvas |->
        IF InRect(p, r) THEN <<k, p[1] - r.x, p[2] - r.y>> ELSE canvas[p]]

\* Mutant of NextOffset: advances by the height of the image.
M_NextOffsetRows(xOffset, img) == xOffset + img.rows

\* xOffset += images[i].cols
NextOffset(xOffset, img) == xOffset + img.cols

\* result.roi(rect) throws unless rect lies inside result.
Fits(r, size) ==
    /\ 0 <= r.x /\ 0 <= r.w /\ r.x + r.w <= size.cols
    /\ 0 <= r.y /\ 0 <= r.h /\ r.y + r.h <= size.rows

\* The concatenation loop from index i (0-based) on; st holds the canvas,
\* the rectangles used so far, the setProgress calls made so far, and
\* whether every roi so far could be taken.
RECURSIVE ConcatLoop(_, _, _, _, _)
ConcatLoop(images, size, i, xOffset, st) ==
    IF i >= Len(images) THEN st
    ELSE LET img == images[i + 1]
             r == RoiRect(xOffset, img)
         IN IF ~Fits(r, size) THEN [st EXCEPT !.ok = FALSE]
            ELSE ConcatLoop(images, size, i + 1, NextOffset(xOffset, img),
                   [canvas |-> CopyTo(st.canvas, r, i),
                    placements |-> Append(st.placements, r),
                    events |-> Append(st.events,
                                      WarpingProgress(i, Len(images))),
                    ok |-> TRUE])

\* The whole fallback branch: size the canvas, blank it, place the images.
Fallback(images) ==
    LET size == CanvasSize(images)
    IN [size |-> size] @@
       ConcatLoop(images, size, 0, 0,
                  [canvas |-> BlankCanvas(size), placements |-> <<>>,
                   events |-> <<WarpingStart>>, ok |-> TRUE])

\* Mutant of TargetHeight: Math.round in place of Math.floor.
M_TargetHeightRound(targetWidth) == (targetWidth + 1) \div 2

\* const targetHeight = Math.floor(targetWidth / 2)
TargetHeight(targetWidth) == targetWidth \div 2

\* new cv.Size(targetWidth, targetHeight), targetWidth = result.cols
TargetSize(result) ==
    [cols |-> result.cols, rows |-> TargetHeight(result.cols)]

M_PushMatFront(images, mat) == <<mat>> \o images

\* images.push(mat)
PushMat(images, mat) == Append(images, mat)

\* ---------------------------------------------------------------- actions
\* catch (err) { setError(message); throw err } finally { setIsStitching(
\* false); setTimeout(reset, 2000) }, then the caller's catch: onError.
\* c is the call as it stands when the error is thrown, prog the last
\* setProgress argument.
Fail(c, prog, msg) ==
    /\ call' = [c EXCEPT !.pc = "done", !.outcome = "rejected",
                         !.errorMsg = Some(msg), !.delivered = "onError"]
    /\ progress' = prog
    /\ error' = Some(msg)
    /\ isStitching' = FALSE
    /\ timers' = timers + 1
    /\ app' = handleError(app, msg)
    /\ UNCHANGED <<cvLoaded, hasStitcher, frames, others>>

\* The cleanup (lines 139-141: every image, result and equirect deleted),
\* return dataUrl, the finally block, then the caller: onStitched(panorama).
Succeed(c, prog, img) ==
    /\ call' = [c EXCEPT !.pc = "done", !.outcome = "resolved",
                         !.panorama = Some(img), !.delivered = "onStitched",
                         !.live = (c.live \ {<<"image", k>> : k \in
                                               0..(Len(c.images) - 1)})
                                     \ {ResultMat, EquirectMat}]
    /\ progress' = prog
    /\ isStitching' = FALSE
    /\ timers' = timers + 1
    /\ app' = handleStitched(app, img)
    /\ UNCHANGED <<cvLoaded, hasStitcher, frames, error, others>>

\* Lines 117-143: blending, complete, resize, imencode, cleanup.
\* cv.resize and cv.imencode either return or throw.
Project(c, result) ==
    LET c1 == [c EXCEPT !.events = c.events \o <<BlendingEvent, CompleteEvent>>,
                        !.composite = Some(result),
                        !.live = c.live \cup {EquirectMat}]
        size == TargetSize(result)
    IN \/ Succeed([c1 EXCEPT !.equirect = Some(size)],
                  Some(CompleteEvent), size)
       \/ Fail(c1, Some(CompleteEvent), ErrProjection)

\* Lines 64-115, once every frame is loaded: detecting, then cv.Stitcher or
\* the concatenation. stitcher.stitch returns Stitcher_OK with an image of
\* some size, or another status.
Compose(c) ==
    LET c1 == [c EXCEPT !.events = Append(c.events, DetectingEvent)]
    IN IF UseStitcher(hasStitcher)
       THEN LET c2 == [c1 EXCEPT !.featureAttempts = c1.featureAttempts + 1]
            IN \/ \E pano \in PanoSizes :
                     Project([c2 EXCEPT !.status = "OK",
                                        !.live = c2.live \cup {ResultMat}],
                             pano)
               \/ Fail([c2 EXCEPT !.status = "ERR"], Some(DetectingEvent),
                       ErrStatus)
       ELSE LET fb == Fallback(c1.images)
                c2 == [c1 EXCEPT !.fallbackRuns = c1.fallbackRuns + 1,
                                 !.events = c1.events \o fb.events,
                                 !.composite = Some(fb.size),
                                 !.placements = fb.placements,
                                 !.canvas = Some(fb.canvas),
                                 !.live = c1.live \cup {ResultMat}]
            IN IF fb.ok
               THEN Project(c2, fb.size)
               ELSE Fail(c2, Some(fb.events[Len(fb.events)]), ErrRoi)

\* stitchFrames(frames), up to its first await (lines 23-43, 59), awaited
\* by a caller that reports a rejection through onError. Spec follows one
\* call at a time: stitchFrames reads none of the hook's state, so what a call
\* emits and returns does not depend on other calls. timers < MaxTimers caps
\* the number of pending resets.
M_EntryRejectedInsideTry(hook, message) ==
    [hook EXCEPT !.isStitching = FALSE, !.error = Some(message),
                 !.timers = IF @ < MaxTimers THEN @ + 1 ELSE @]

\* throw new Error(...) of the entry checks (lines 24-30): it comes before
\* the setters and outside the try block, so neither the catch nor the
\* finally block runs. hook is the state of useStitcher with its pending
\* reset timers, and the result is that state after the throw.
EntryRejected(hook, message) == hook

StitchFrames ==
    /\ call.pc # "decoding"
    /\ LET err == EntryError(cvLoaded, frames)
           c == [NoCall EXCEPT !.frames = frames, !.wasLoaded = cvLoaded]
       IN IF err # None
          THEN /\ call' = [c EXCEPT !.pc = "done", !.outcome = "rejected",
                                    !.errorMsg = err, !.delivered = "onError"]
               /\ app' = handleError(app, err[1])
               /\ LET hook == EntryRejected(
                                  [isStitching |-> isStitching,
                                   progress |-> progress, error |-> error,
                                   timers |-> timers], err[1])
                  IN /\ isStitching' = hook.isStitching
                     /\ progress' = hook.progress
                     /\ error' = hook.error
                     /\ timers' = hook.timers
               /\ UNCHANGED <<cvLoaded, hasStitcher, frames, others>>
          ELSE /\ timers < MaxTimers
               /\ call' = [c EXCEPT !.pc = "decoding",
                              !.events = <<LoadingEvent, PreprocessingStart>>]
               /\ isStitching' = TRUE
               /\ error' = None
               /\ progress' = Some(PreprocessingStart)
               /\ UNCHANGED <<cvLoaded, hasStitcher, timers, frames, app,
                              others>>

\* img.onload of frame i (lines 44-57; cv.imread returns or throws), and
\* what follows the await: the next iteration of the loop, or the rest of
\* the call.
ImgOnLoad ==
    /\ call.pc = "decoding"
    /\ LET i == call.i
           n == Len(call.frames)
           mat == [cols |-> call.frames[i + 1].w,
                   rows |-> call.frames[i + 1].h, src |-> i]
           ev == PreprocessingProgress(i, n)
           c1 == [call EXCEPT !.images = PushMat(call.images, mat),
                              !.events = Append(call.events, ev),
                              !.i = i + 1,
                              !.live = call.live \cup {<<"image", i>>}]
       IN \/ Fail(call, progress, ErrImread)
          \/ IF i + 1 < n
             THEN /\ call' = c1
                  /\ progress' = Some(ev)
                  /\ UNCHANGED <<cvLoaded, hasStitcher, isStitching, error,
                                 timers, frames, app, others>>
             ELSE Compose(c1)

M_ImgOnErrorNoReject ==
    /\ call.pc = "decoding"
    /\ call' = [call EXCEPT !.pc = "hung"]
    /\ UNCHANGED <<cvLoaded, hasStitcher, isStitching, progress, error,
                   timers, frames, app, others>>

\* img.onerror of frame i (line 58).
ImgOnError ==
    /\ call.pc = "decoding"
    /\ Fail(call, progress, ErrFrameLoad)

\* setTimeout(() => setProgress(null), 2000) fires.
ProgressReset ==
    /\ timers > 0
    /\ timers' = timers - 1
    /\ progress' = None
    /\ UNCHANGED <<cvLoaded, hasStitcher, isStitching, error, frames, call,
                   app, others>>

Next ==
    \/ LoadOpenCV
    \/ StitchFrames
    \/ ImgOnLoad
    \/ ImgOnError
    \/ ProgressReset

Spec == Init /\ [][Next]_vars

\* The browser settles every image load: while a call waits for a frame to
\* decode, img.onload or img.onerror eventually fires.
FairSpec == Spec /\ WF_vars(ImgOnLoad \/ ImgOnError)

\* ------------------------------------------- stitchFrames, its entry
\* SpecEntry calls stitchFrames in every state other calls can have left
\* the hook in: stitching or not, with or without a progress event and an
\* error, with the library loaded or not, with few or enough frames.
InitEntry ==
    /\ cvLoaded \in BOOLEAN
    /\ hasStitcher = FALSE
    /\ isStitching \in BOOLEAN
    /\ progress \in {None, Some(LoadingEvent), Some(DetectingEvent),
                      Some(CompleteEvent)}
    /\ error \in {None, Some(ErrFrameLoad), Some(ErrTooFew)}
    /\ timers \in 0..1
    /\ frames \in {fs \in FrameSeqs : Len(fs) <= 2}
    /\ call = NoCall
    /\ app = [state |-> "processing", panorama |-> None, error |-> None]
    /\ cap = NoCapture
    /\ stitcher = NoStitcher

NextEntry ==
    \/ LoadOpenCV
    \/ StitchFrames

SpecEntry == InitEntry /\ [][NextEntry]_vars

\* ------------------------------------------- PanoramaCapture, the actions
\* The hook state of useStitcher and the call: no capture action touches it.
stitchVars == <<cvLoaded, hasStitcher, isStitching, progress, error, timers,
                call, stitcher>>

\* The App in its 'capturing' state with PanoramaCapture just mounted.
InitCapture ==
    /\ cvLoaded = FALSE
    /\ hasStitcher = FALSE
    /\ isStitching = FALSE
    /\ progress = None
    /\ error = None
    /\ timers = 0
    /\ frames = <<>>
    /\ call = NoCall
    /\ app = [state |-> "capturing", panorama |-> None, error |-> None]
    /\ cap = [NoCapture EXCEPT !.mounted = TRUE]
    /\ stitcher = NoStitcher

\* startCamera succeeded: setIsActive(true).
CameraStarted ==
    /\ cap.mounted
    /\ ~cap.isActive
    /\ cap' = [cap EXCEPT !.isActive = TRUE]
    /\ UNCHANGED <<frames, app, stitchVars>>

\* The component is removed; its effect cleanup calls stopCamera and the
\* video element is gone. Nothing tells startCapture.
Unmount ==
    /\ cap.mounted
    /\ cap' = [cap EXCEPT !.mounted = FALSE, !.isActive = FALSE,
                          !.unmountedAt = Len(cap.attempts)]
    /\ UNCHANGED <<frames, app, stitchVars>>

\* startCapture up to its first await (lines 52-65). The capture button is
\* rendered only when !isCapturing && countdown === null.
StartCapture ==
    /\ cap.mounted
    /\ cap.pc \in {"idle", "done"}
    /\ IF ~cap.isActive
       THEN /\ cap' = NotReadyStart(cap)
            /\ app' = handleError(app, ErrCameraNotReady)
            /\ UNCHANGED <<frames, stitchVars>>
       ELSE /\ cap.run < MaxRuns
            /\ cap' = [cap EXCEPT !.pc = "countdown", !.isCapturing = TRUE,
                                  !.progress = Pct(0, 1),
                                  !.frames = StartFrames(cap.frames),
                                  !.countdown = Some(CountdownFrom),
                                  !.c = CountdownFrom,
                                  !.capturedFrames =
                                      StartFrames(cap.capturedFrames),
                                  !.i = 0,
                                  !.run = cap.run + 1, !.attempts = <<>>,
                                  !.hits = 0,
                                  !.countdownLog = <<Some(CountdownFrom)>>,
                                  !.reports = <<>>]
            /\ UNCHANGED <<frames, app, stitchVars>>

\* Lines 91-97, after the loop: setIsCapturing(false), then one callback.
\* onFramesCaptured is handleFramesCaptured of the App, which leaves the
\* 'capturing' state and so stops rendering PanoramaCapture.
FinishCapture(c) ==
    IF EnoughFrames(c.capturedFrames)
    THEN /\ cap' = [c EXCEPT !.pc = "done", !.isCapturing = FALSE,
                             !.reports = Append(c.reports,
                                 Report("onFramesCaptured", c.capturedFrames, "")),
                             !.mounted = FALSE, !.isActive = FALSE,
                             !.unmountedAt = IF c.mounted THEN Len(c.attempts)
                                             ELSE c.unmountedAt]
         /\ frames' = c.capturedFrames
         /\ app' = handleFramesCaptured(app)
         /\ UNCHANGED stitchVars
    ELSE /\ cap' = [c EXCEPT !.pc = "done", !.isCapturing = FALSE,
                             !.reports = Append(c.reports,
                                 Report("onError", <<>>, ErrNotEnough))]
         /\ app' = handleError(app, ErrNotEnough)
         /\ UNCHANGED <<frames, stitchVars>>

\* One iteration of the capture loop (lines 77-89) from captureFrame() to
\* the await of the interval, or to the end of startCapture after the last
\* slot. c is the component as the iteration finds it.
CaptureAttempt(c) ==
    \E haveEnoughData \in BOOLEAN :
        LET frame == captureFrame(c.mounted, haveEnoughData,
                                  FrameId(c.run, c.i))
            captured == Collect(c.capturedFrames, frame)
            c1 == [c EXCEPT !.capturedFrames = captured,
                            !.frames = IF frame # None THEN captured ELSE @,
                            !.attempts = Append(@, c.i),
                            !.hits = IF frame # None THEN @ + 1 ELSE @,
                            !.progress = CaptureProgress(c.i),
                            !.i = c.i + 1]
        IN IF MoreSlots(c.i + 1)
           THEN /\ cap' = c1
                /\ UNCHANGED <<frames, app, stitchVars>>
           ELSE FinishCapture(c1)

\* A 1 s timer of the countdown fires (lines 64-68): setCountdown(i - 1),
\* then the next wait, or after the last one setCountdown(null) and the
\* first iteration of the capture loop.
CountdownTick ==
    /\ cap.pc = "countdown"
    /\ LET n == CountdownNext(cap.c)
           c1 == [cap EXCEPT !.countdown = Some(n),
                             !.countdownLog = Append(@, Some(n)),
                             !.c = cap.c - 1]
       IN IF cap.c - 1 > 0
          THEN /\ cap' = c1
               /\ UNCHANGED <<frames, app, stitchVars>>
          ELSE CaptureAttempt([c1 EXCEPT !.countdown = None,
                                         !.countdownLog = Append(@, None),
                                         !.pc = "capturing"])

\* The interval timer of the capture loop fires (line 87).
CaptureTick ==
    /\ cap.pc = "capturing"
    /\ CaptureAttempt(cap)

NextCapture ==
    \/ CameraStarted
    \/ Unmount
    \/ StartCapture
    \/ CountdownTick
    \/ CaptureTick

SpecCapture == InitCapture /\ [][NextCapture]_vars

\* ------------------------------------------- captureFrame of useCamera
\* SpecFrame calls captureFrame in every condition of the video element and
\* the canvas.
Cameras ==
    {[NoCamera EXCEPT !.video = v, !.canvas = c, !.readyState = r,
                      !.contextOk = x, !.videoSize = f] :
        v \in BOOLEAN, c \in BOOLEAN, r \in ReadyStates, x \in BOOLEAN,
        f \in Frames}

InitFrame ==
    /\ cvLoaded = FALSE
    /\ hasStitcher = FALSE
    /\ isStitching = FALSE
    /\ progress = None
    /\ error = None
    /\ timers = 0
    /\ frames = <<>>
    /\ call = NoCall
    /\ app = [state |-> "capturing", panorama |-> None, error |-> None]
    /\ \E cam \in Cameras : cap = [NoCapture EXCEPT !.mounted = TRUE,
                                                     !.camera = cam]
    /\ stitcher = NoStitcher

\* A call of captureFrame.
CallCaptureFrame ==
    /\ cap' = [cap EXCEPT !.camera = CaptureFrameCall(cap.camera)]
    /\ UNCHANGED <<frames, app, stitchVars>>

\* The video element changes its readyState (it buffers, stalls, ends).
ReadyStateChange ==
    /\ cap.camera.video
    /\ \E r \in ReadyStates \ {cap.camera.readyState} :
          cap' = [cap EXCEPT !.camera.readyState = r]
    /\ UNCHANGED <<frames, app, stitchVars>>

\* The effect of useCamera creates the canvas (lines 28-32).
CanvasCreated ==
    /\ ~cap.camera.canvas
    /\ cap' = [cap EXCEPT !.camera.canvas = TRUE]
    /\ UNCHANGED <<frames, app, stitchVars>>

\* React attaches the video element to videoRef, or detaches it.
VideoRefChange ==
    /\ cap' = [cap EXCEPT !.camera.video = ~cap.camera.video]
    /\ UNCHANGED <<frames, app, stitchVars>>

NextFrame ==
    \/ CallCaptureFrame
    \/ ReadyStateChange
    \/ CanvasCreated
    \/ VideoRefChange

SpecFrame == InitFrame /\ [][NextFrame]_vars

\* ------------------------------------- startCapture calls side by side
\* SpecLoops follows every startCapture call as a loop of its own: a
\* record with the instance that started it, its position pc, its loop
\* variables c and i and its local array capturedFrames. The state setters
\* of a loop act on the component only while its instance is mounted.
M_ButtonShownAlways(c) == TRUE

\* {!isCapturing && countdown === null && (<button ...>)}
ButtonShown(c) == ~c.isCapturing /\ c.countdown = None

\* disabled={!isActive}
ButtonEnabled(c) == c.isActive

Own(l) == cap.mounted /\ l.inst = cap.inst

Running(l) == l.pc \in {"countdown", "capturing"}

\* The video either has data to draw for the whole behaviour or never.
InitLoops ==
    /\ cvLoaded = FALSE
    /\ hasStitcher = FALSE
    /\ isStitching = FALSE
    /\ progress = None
    /\ error = None
    /\ timers = 0
    /\ frames = <<>>
    /\ call = NoCall
    /\ app = [state |-> "capturing", panorama |-> None, error |-> None]
    /\ \E r \in {"HAVE_CURRENT_DATA", "HAVE_ENOUGH_DATA"} :
          cap = [NoCapture EXCEPT !.mounted = TRUE, !.inst = 1,
                                  !.camera.readyState = r]
    /\ stitcher = NoStitcher

\* The App renders PanoramaCapture again (state 'capturing'): a new
\* instance with fresh state; the loops of earlier instances go on.
Remount ==
    /\ ~cap.mounted
    /\ cap.inst < MaxRuns
    /\ cap' = [NoCapture EXCEPT !.mounted = TRUE, !.inst = cap.inst + 1,
                                !.loops = cap.loops, !.camera = cap.camera]
    /\ app' = [app EXCEPT !.state = "capturing"]
    /\ UNCHANGED <<frames, stitchVars>>

\* A click on the capture button: startCapture up to its first await.
PressStartCapture ==
    /\ cap.mounted
    /\ ButtonShown(cap)
    /\ ButtonEnabled(cap)
    /\ Len(cap.loops) < MaxRuns
    /\ cap' = [cap EXCEPT
                 !.isCapturing = TRUE, !.progress = Pct(0, 1),
                 !.frames = StartFrames(cap.frames),
                 !.countdown = Some(CountdownFrom),
                 !.loops = Append(@, [inst |-> cap.inst, pc |-> "countdown",
                                      c |-> CountdownFrom, i |-> 0,
                                      capturedFrames |-> <<>>])]
    /\ UNCHANGED <<frames, app, stitchVars>>

\* One iteration of the capture loop of loop k, l being the loop as the
\* iteration finds it and c the component.
LoopAttempt(k, l, c) ==
    LET own == Own(l)
        frame == captureFrame(own, c.camera.readyState = "HAVE_ENOUGH_DATA",
                              FrameId(k, l.i))
        captured == Collect(l.capturedFrames, frame)
        more == MoreSlots(l.i + 1)
        l1 == [l EXCEPT !.capturedFrames = captured, !.i = l.i + 1,
                        !.pc = IF more THEN "capturing" ELSE "done"]
        c1 == [c EXCEPT
                 !.frames = IF own /\ frame # None THEN captured ELSE @,
                 !.progress = IF own THEN CaptureProgress(l.i) ELSE @,
                 !.isCapturing = IF own /\ ~more THEN FALSE ELSE @,
                 !.loops[k] = l1]
    IN IF more
       THEN /\ cap' = c1
            /\ UNCHANGED <<frames, app, stitchVars>>
       ELSE IF EnoughFrames(captured)
            THEN /\ cap' = [c1 EXCEPT !.mounted = FALSE, !.isActive = FALSE]
                 /\ frames' = captured
                 /\ app' = handleFramesCaptured(app)
                 /\ UNCHANGED stitchVars
            ELSE /\ cap' = c1
                 /\ app' = handleError(app, ErrNotEnough)
                 /\ UNCHANGED <<frames, stitchVars>>

\* A 1 s timer of the countdown of loop k fires.
LoopCountdownTick(k) ==
    LET l == cap.loops[k]
        own == Own(l)
        n == CountdownNext(l.c)
    IN /\ l.pc = "countdown"
       /\ IF l.c - 1 > 0
          THEN /\ cap' = [cap EXCEPT
                            !.countdown = IF own THEN Some(n) ELSE @,
                            !.loops[k].c = l.c - 1]
               /\ UNCHANGED <<frames, app, stitchVars>>
          ELSE LoopAttempt(k, [l EXCEPT !.c = l.c - 1, !.pc = "capturing"],
                           [cap EXCEPT !.countdown = IF own THEN None ELSE @])

\* The interval timer of loop k fires.
LoopCaptureTick(k) ==
    /\ cap.loops[k].pc = "capturing"
    /\ LoopAttempt(k, cap.loops[k], cap)

NextLoops ==
    \/ CameraStarted
    \/ Unmount
    \/ Remount
    \/ PressStartCapture
    \/ \E k \in DOMAIN cap.loops : LoopCountdownTick(k)
    \/ \E k \in DOMAIN cap.loops : LoopCaptureTick(k)

SpecLoops == InitLoops /\ [][NextLoops]_vars

\* ------------------------------------------------ useCamera, requests
\* SpecCamera follows the startCamera and stopCamera calls on one
\* useCamera.
InitCamera ==
    /\ cvLoaded = FALSE
    /\ hasStitcher = FALSE
    /\ isStitching = FALSE
    /\ progress = None
    /\ error = None
    /\ timers = 0
    /\ frames = <<>>
    /\ call = NoCall
    /\ app = [state |-> "capturing", panorama |-> None, error |-> None]
    /\ \E v \in BOOLEAN, a \in BOOLEAN :
          cap = [NoCapture EXCEPT !.mounted = TRUE,
                                  !.cameraHook.video = v,
                                  !.cameraHook.api = a]
    /\ stitcher = NoStitcher

CameraBecomes(h) ==
    /\ cap' = [cap EXCEPT !.cameraHook = h, !.isActive = h.isActive]
    /\ UNCHANGED <<frames, app, stitchVars>>

\* A call of startCamera.
StartCameraCall ==
    /\ cap.cameraHook.accepted < MaxRequests
    /\ CameraBecomes(startCamera(cap.cameraHook))

\* A call of stopCamera.
StopCameraCall ==
    /\ cap.cameraHook.stream # None
    /\ CameraBecomes(stopCamera(cap.cameraHook))

\* getUserMedia resolves for the k-th pending call (lines 198-211).
GetUserMediaResolves(k) ==
    LET h == cap.cameraHook
        id == h.streams + 1
        h1 == [h EXCEPT !.stream = Some(id), !.isActive = TRUE,
                        !.live = @ \cup {id}, !.streams = id]
    IN /\ h.pending[k] \in {"getUserMedia", "getUserMediaMinimal"}
       /\ CameraBecomes(IF h.video
                        THEN [h1 EXCEPT !.pending[k] = "play"]
                        ELSE CameraResolved(h1, k))

\* getUserMedia rejects for the k-th pending call: the ideal constraints
\* are retried with minimal ones, every other error ends the call.
GetUserMediaRejects(k) ==
    LET h == cap.cameraHook
    IN /\ h.pending[k] \in {"getUserMedia", "getUserMediaMinimal"}
       /\ \E name \in {"OverconstrainedError", "NotAllowedError",
                        "NotFoundError"} :
             CameraBecomes(
                 IF h.pending[k] = "getUserMedia"
                    /\ name = "OverconstrainedError"
                 THEN [h EXCEPT !.pending[k] = "getUserMediaMinimal"]
                 ELSE CameraFailed(h, k, CameraErrorMessage(name)))

\* video.play() settles for the k-th pending call; a rejection is only
\* logged.
PlaySettles(k) ==
    /\ cap.cameraHook.pending[k] = "play"
    /\ CameraBecomes(CameraResolved(cap.cameraHook, k))

NextCamera ==
    \/ StartCameraCall
    \/ StopCameraCall
    \/ \E k \in DOMAIN cap.cameraHook.pending : GetUserMediaResolves(k)
    \/ \E k \in DOMAIN cap.cameraHook.pending : GetUserMediaRejects(k)
    \/ \E k \in DOMAIN cap.cameraHook.pending : PlaySettles(k)

SpecCamera == InitCamera /\ [][NextCamera]_vars

\* -------------------------------------------------- useOpenCV, loading
\* SpecLoad follows the loading of the library by one useOpenCV instance
\* after the other, in a page that may already hold the script or the
\* library.
M_AutoLoadDueIgnoresError(h) == ~h.isLoaded /\ ~h.isLoading

\* if (!isLoaded && !isLoading && !error) { loadOpenCV(); }
AutoLoadDue(h) == ~h.isLoaded /\ ~h.isLoading /\ h.error = None

\* loadOpenCV up to its await (lines 28-81).
LoadStart(h) ==
    IF h.windowCv # "absent"
    THEN [h EXCEPT !.cv = Some(h.windowCv), !.isLoaded = TRUE,
                   !.attempts = @ + 1]
    ELSE IF h.isLoading
    THEN [h EXCEPT !.attempts = @ + 1]
    ELSE [h EXCEPT !.isLoading = TRUE, !.error = None, !.attempts = @ + 1,
                   !.pc = IF h.script # "none" THEN "waitExisting"
                          ELSE "waitScript",
                   !.script = IF h.script = "none" THEN "loading" ELSE @]

\* The awaited promise resolved: setCv(window.cv), setIsLoaded(true),
\* finally setIsLoading(false).
LoadResolved(h) ==
    [h EXCEPT !.cv = Some(h.windowCv), !.isLoaded = TRUE,
              !.isLoading = FALSE, !.pc = "idle", !.polls = 0]

\* It rejected: setError(err.message), finally setIsLoading(false).
LoadRejected(h, message) ==
    [h EXCEPT !.error = Some(message), !.isLoading = FALSE, !.pc = "idle",
              !.polls = 0]

\* The page before the component mounts: no script, a script still
\* loading, one that failed, or one that ran and left window.cv in any of
\* its states.
Pages ==
    {[NoOpenCV EXCEPT !.script = sc, !.windowCv = w] :
        sc \in {"none", "loading", "failed"}, w \in {"absent"}}
    \cup {[NoOpenCV EXCEPT !.script = "loaded", !.windowCv = w] :
        w \in {"absent", "partial", "ready"}}

InitLoad ==
    /\ cvLoaded = FALSE
    /\ isStitching = FALSE
    /\ progress = None
    /\ error = None
    /\ timers = 0
    /\ frames = <<>>
    /\ call = NoCall
    /\ app = [state |-> "processing", panorama |-> None, error |-> None]
    /\ cap = NoCapture
    /\ \E page \in Pages :
          /\ stitcher = [NoStitcher EXCEPT !.opencv = page]
          /\ hasStitcher \in IF page.windowCv = "ready" THEN BOOLEAN
                              ELSE {FALSE}

\* The hook after a step and isLoaded && cv as stitchFrames sees it. A
\* library that becomes ready has the Stitcher class or lacks it.
HookBecomes(h) ==
    /\ stitcher' = [stitcher EXCEPT !.opencv = h]
    /\ cvLoaded' = (h.isLoaded /\ h.cv # None)
    /\ IF h.windowCv = "ready" /\ stitcher.opencv.windowCv # "ready"
       THEN hasStitcher' \in BOOLEAN
       ELSE hasStitcher' = hasStitcher
    /\ UNCHANGED <<isStitching, progress, error, timers,
                   frames, call, app, cap>>

\* The auto-load effect runs and finds a load due (lines 96-100).
AutoLoad ==
    /\ stitcher.opencv.pc = "idle"
    /\ stitcher.opencv.attempts < MaxRuns
    /\ AutoLoadDue(stitcher.opencv)
    /\ HookBecomes(LoadStart(stitcher.opencv))

\* The script element fires onload; the script has defined window.cv or
\* not, with Mat or not yet. The call that appended it starts to poll.
ScriptOnLoad ==
    /\ stitcher.opencv.script = "loading"
    /\ \E w \in {"absent", "partial", "ready"} :
          HookBecomes([stitcher.opencv EXCEPT
                         !.script = "loaded", !.windowCv = w,
                         !.pc = IF @ = "waitScript" THEN "waitInit" ELSE @])

\* The script element fires onerror.
ScriptOnError ==
    /\ stitcher.opencv.script = "loading"
    /\ LET h == [stitcher.opencv EXCEPT !.script = "failed"]
       IN HookBecomes(IF h.pc = "waitScript"
                      THEN LoadRejected(h, ErrScript) ELSE h)

\* The library finishes its initialisation: window.cv.Mat exists.
RuntimeReady ==
    /\ stitcher.opencv.script = "loaded"
    /\ stitcher.opencv.windowCv = "partial"
    /\ HookBecomes([stitcher.opencv EXCEPT !.windowCv = "ready"])

\* if (window.cv) of the one interval, if (window.cv && window.cv.Mat) of
\* the other.
PollFinds(h) ==
    \/ h.pc = "waitExisting" /\ h.windowCv # "absent"
    \/ h.pc = "waitInit" /\ h.windowCv = "ready"

\* A tick of the polling interval: it resolves the promise or finds
\* nothing.
PollTick ==
    LET h == stitcher.opencv
    IN /\ h.pc \in {"waitExisting", "waitInit"}
       /\ IF PollFinds(h)
          THEN HookBecomes(LoadResolved(h))
          ELSE /\ h.polls < MaxPolls
               /\ HookBecomes([h EXCEPT !.polls = @ + 1])

\* The 30 s timer fires: clearInterval and reject.
LoadTimeout ==
    LET h == stitcher.opencv
    IN /\ h.pc \in {"waitExisting", "waitInit"}
       /\ h.polls = MaxPolls
       /\ HookBecomes(LoadRejected(h, IF h.pc = "waitInit"
                                      THEN ErrInitTimeout
                                      ELSE ErrLoadTimeout))

\* The component is mounted anew: a fresh useOpenCV in the same page. What
\* a pending call of the old instance does to its state is lost.
NewInstance ==
    /\ stitcher.opencv.inst < MaxRuns
    /\ HookBecomes([NoOpenCV EXCEPT !.inst = stitcher.opencv.inst + 1,
                                    !.windowCv = stitcher.opencv.windowCv,
                                    !.script = stitcher.opencv.script])

NextLoad ==
    \/ AutoLoad
    \/ ScriptOnLoad
    \/ ScriptOnError
    \/ RuntimeReady
    \/ PollTick
    \/ LoadTimeout
    \/ NewInstance

SpecLoad == InitLoad /\ [][NextLoad]_vars

\* Timers fire, the script element reports its load or its failure, and
\* an effect that is due runs.
FairSpecLoad ==
    /\ SpecLoad
    /\ WF_vars(AutoLoad)
    /\ WF_vars(PollTick \/ LoadTimeout)
    /\ WF_vars(ScriptOnLoad \/ ScriptOnError)

\* ------------------------------------------------- the App, the actions
\* SpecApp follows the App through its sessions. A capture run is its
\* outcome (SpecCapture follows its steps) and a stitchFrames call is its
\* start and its settling (Spec follows its steps).
hookVars == <<isStitching, progress, error, timers, call>>

\* The camera delivers frames of one size: the sequences a capture run can
\* hand to handleFramesCaptured.
CapturedSeqs ==
    {fs \in FrameSeqs : Len(fs) >= 2 /\ \A k \in 1..Len(fs) : fs[k] = fs[1]}

\* The Mats a call decodes its frames to.
Decoded(fs) ==
    [k \in 1..Len(fs) |-> [cols |-> fs[k].w, rows |-> fs[k].h, src |-> k - 1]]

\* What a stitchFrames call that passed the entry checks can settle with:
\* a panorama (the projection of the stitcher's image or of the
\* concatenation) or one of the errors of its steps.
CallOutcomes(available, fs) ==
    LET fb == Fallback(Decoded(fs))
        panos == IF UseStitcher(available)
                 THEN {TargetSize(p) : p \in PanoSizes}
                 ELSE IF fb.ok THEN {TargetSize(fb.size)} ELSE {}
        errs == {ErrFrameLoad, ErrImread, ErrProjection}
                  \cup (IF UseStitcher(available) THEN {ErrStatus}
                        ELSE IF fb.ok THEN {} ELSE {ErrRoi})
    IN {[ok |-> TRUE, panorama |-> Some(img), message |-> ""] : img \in panos}
         \cup {[ok |-> FALSE, panorama |-> None, message |-> m] : m \in errs}

\* OpenCVStitcher is rendered.
Processing == app.state = "processing"

\* The App rendered again: OpenCVStitcher, if rendered, gets new onStitched
\* and onError functions and its effect will run again.
Rerendered(st) == [st EXCEPT !.stale = Processing]

InitApp ==
    /\ cvLoaded = FALSE
    /\ hasStitcher \in BOOLEAN
    /\ isStitching = FALSE
    /\ progress = None
    /\ error = None
    /\ timers = 0
    /\ frames = <<>>
    /\ call = NoCall
    /\ app = [state |-> "idle", panorama |-> None, error |-> None]
    /\ cap = NoCapture
    /\ stitcher = NoStitcher

\* The Start Capture button: setState('capturing').
ClickStart ==
    /\ app.state = "idle"
    /\ app' = [app EXCEPT !.state = "capturing"]
    /\ UNCHANGED <<cvLoaded, hasStitcher, frames, cap, stitcher, hookVars>>

\* A capture run ends with at least 2 frames: handleFramesCaptured. The App
\* now renders OpenCVStitcher, whose hooks start from their initial state
\* (isLoaded false) and whose effect has yet to run.
FramesCaptured ==
    /\ app.state = "capturing"
    /\ \E fs \in CapturedSeqs : frames' = fs
    /\ app' = handleFramesCaptured(app)
    /\ cvLoaded' = FALSE
    /\ stitcher' = [stitcher EXCEPT
                      !.stale = TRUE, !.seenLoaded = FALSE,
                      !.calls = [k \in 1..Len(stitcher.calls) |->
                                 [stitcher.calls[k] EXCEPT !.current = FALSE]]]
    /\ UNCHANGED <<hasStitcher, cap, hookVars>>

\* A capture run reports an error: handleError.
CaptureError ==
    /\ app.state = "capturing"
    /\ \E m \in {ErrCameraNotReady, ErrNotEnough} : app' = handleError(app, m)
    /\ UNCHANGED <<cvLoaded, hasStitcher, frames, cap, stitcher, hookVars>>

\* useOpenCV of the rendered OpenCVStitcher finishes loading.
LibraryLoaded ==
    /\ Processing
    /\ LoadOpenCV

\* The effect of OpenCVStitcher runs (lines 17-33) because one of its
\* dependencies changed: processStitching calls stitchFrames(frames). A
\* call that fails the entry checks rejects at once and onError re-renders
\* the App; any other call is now pending.
EffectRun ==
    /\ Processing
    /\ stitcher.stale \/ stitcher.seenLoaded # cvLoaded
    /\ LET ran == [stitcher EXCEPT !.stale = FALSE, !.seenLoaded = cvLoaded]
           err == EntryError(cvLoaded, frames)
       IN IF Len(frames) = 0
          THEN /\ stitcher' = ran
               /\ UNCHANGED app
          ELSE IF err # None
          THEN /\ app' = handleError(app, err[1])
               /\ stitcher' = Rerendered(ran)
          ELSE /\ Len(stitcher.calls) < MaxInFlight
               /\ stitcher' = [ran EXCEPT !.calls =
                                 Append(@, [frames |-> frames, current |-> TRUE])]
               /\ UNCHANGED app
    /\ UNCHANGED <<cvLoaded, hasStitcher, frames, cap, hookVars>>

\* A pending stitchFrames call settles and processStitching goes on (lines
\* 24-29): onStitched(panorama), which takes the App to 'viewing', or
\* onError(message), which re-renders it.
Settle ==
    \E k \in 1..Len(stitcher.calls) :
      \E o \in CallOutcomes(hasStitcher, stitcher.calls[k].frames) :
        LET rest == [j \in 1..(Len(stitcher.calls) - 1) |->
                        stitcher.calls[IF j < k THEN j ELSE j + 1]]
            a == IF o.ok THEN handleStitched(app, o.panorama[1])
                 ELSE handleError(app, o.message)
        IN /\ app' = a
           /\ stitcher' = [stitcher EXCEPT !.calls = rest,
                                           !.stale = a.state = "processing"]
           /\ UNCHANGED <<cvLoaded, hasStitcher, frames, cap, hookVars>>

\* The close button of the error display: setError(null).
DismissError ==
    /\ app.error # None
    /\ app' = [app EXCEPT !.error = None]
    /\ stitcher' = Rerendered(stitcher)
    /\ UNCHANGED <<cvLoaded, hasStitcher, frames, cap, hookVars>>

\* The New Capture button of the viewer: handleNewCapture.
NewCapture ==
    /\ app.state = "viewing"
    /\ app' = handleNewCapture(app)
    /\ frames' = <<>>
    /\ UNCHANGED <<cvLoaded, hasStitcher, cap, stitcher, hookVars>>

NextApp ==
    \/ ClickStart
    \/ FramesCaptured
    \/ CaptureError
    \/ LibraryLoaded
    \/ EffectRun
    \/ Settle
    \/ DismissError
    \/ NewCapture

SpecApp == InitApp /\ [][NextApp]_vars

\* ------------------------------------------------------------- the claims
Done == call.pc = "done"

\* Every frame of the call was decoded, so the call reached line 64.
AllDecoded == Len(call.frames) >= 2 /\ Len(call.images) = Len(call.frames)

\* C1 (as stated): a stitchFrames call with fewer than 2 frames fails with
\* the insufficient-frames error, emits no progress event, never sets
\* isStitching and returns no panorama, whether or not the library is loaded.
C1_TooFewFramesError ==
    (Done /\ Len(call.frames) < 2) =>
        /\ call.outcome = "rejected"
        /\ call.errorMsg = Some(ErrTooFew)
        /\ call.events = <<>>
        /\ call.panorama = None
        /\ ~isStitching

\* C2 (as stated): when cv.Stitcher is available and stitcher.stitch returns
\* a non-success status, the call falls back to the concatenation and the
\* status is not reported to the caller as an error.
C2_NonSuccessFallsBack ==
    (Done /\ call.status = "ERR") =>
        /\ call.fallbackRuns = 1
        /\ call.errorMsg # Some(ErrStatus)
        /\ call.delivered # "onError" \/ call.errorMsg = Some(ErrProjection)

C4_NotLoadedNotSurfaced ==
    (Done /\ Len(call.frames) >= 2 /\ ~call.wasLoaded) =>
        /\ call.outcome # "rejected"
        /\ call.delivered # "onError"

\* Comparison of the percentages of two events, as fractions.
PctLeq(a, b) == a.num * b.den <= b.num * a.den

PctIs(e, p) == e.num = p * e.den

\* The number of events of the call before the k-th with the k-th's stage.
StageCountBefore(k) ==
    Cardinality({j \in 1..(k - 1) :
                    call.events[j].stage = call.events[k].stage})

StagesSeen == {call.events[k].stage : k \in 1..Len(call.events)}

\* C5: within one call the stages of the progress events never move backward
\* in the order loading, preprocessing, detecting, matching, warping,
\* blending, complete.
C5_StagesNeverGoBack ==
    \A j, k \in 1..Len(call.events) :
        j < k => StageIdx(call.events[j].stage) <= StageIdx(call.events[k].stage)

C5_Witness ==
    /\ Done /\ call.outcome = "resolved"
    /\ call.fallbackRuns = 1
    /\ Len(call.frames) = 3
    /\ Len(call.events) = 12

\* C6: the checkpoints: loading at 0, the first preprocessing event at 10,
\* the event of the m-th loaded frame at 10 + 20 (m-1)/n (at most 30),
\* detecting at 30, the first warping event at 50, the event of the m-th
\* placed frame at 50 + 30 (m-1)/n (at most 80), blending at 80, complete at
\* 100; a call that returns has reported loading first, complete last, and
\* every checkpoint of its path in between.
C6_Checkpoints ==
    LET n == Len(call.frames)
        ev == call.events
    IN /\ \A k \in 1..Len(ev) :
            LET e == ev[k]
                m == StageCountBefore(k)
            IN CASE e.stage = "loading" -> PctIs(e, 0) /\ k = 1
                 [] e.stage = "preprocessing" ->
                        IF m = 0 THEN PctIs(e, 10)
                        ELSE /\ e.num * n = (10 * n + 20 * (m - 1)) * e.den
                             /\ e.num <= 30 * e.den
                 [] e.stage = "detecting" -> PctIs(e, 30)
                 [] e.stage = "warping" ->
                        IF m = 0 THEN PctIs(e, 50)
                        ELSE /\ e.num * n = (50 * n + 30 * (m - 1)) * e.den
                             /\ e.num <= 80 * e.den
                 [] e.stage = "blending" -> PctIs(e, 80)
                 [] e.stage = "complete" -> PctIs(e, 100)
                 [] OTHER -> FALSE
       /\ (Done /\ call.outcome = "resolved") =>
            /\ {"loading", "preprocessing", "detecting", "blending",
                "complete"} \subseteq StagesSeen
            /\ ev[Len(ev)].stage = "complete"
            /\ Cardinality({k \in 1..Len(ev) :
                              ev[k].stage = "preprocessing"}) = n + 1
            /\ call.fallbackRuns = 1 =>
                 Cardinality({k \in 1..Len(ev) :
                                ev[k].stage = "warping"}) = n + 1

C6_Witness ==
    /\ Done /\ call.outcome = "resolved"
    /\ call.fallbackRuns = 1
    /\ Len(call.frames) = 3
    /\ \E k \in 1..Len(call.events) :
          /\ call.events[k].stage = "warping"
          /\ call.events[k].num * 1 = 70 * call.events[k].den

\* C7: every progress event of a call has a percent in 0..100, and the
\* percent never decreases from one event of the call to the next.
C7_PercentMonotone ==
    \A k \in 1..Len(call.events) :
        LET e == call.events[k]
        IN /\ e.den > 0
           /\ 0 <= e.num /\ e.num <= 100 * e.den
           /\ k < Len(call.events) => PctLeq(e, call.events[k + 1])

C7_Witness ==
    /\ Done /\ call.outcome = "resolved"
    /\ Len(call.frames) = 3
    /\ \E k \in 1..(Len(call.events) - 1) :
          /\ call.events[k].stage = "warping"
          /\ call.events[k + 1].stage = "warping"
          /\ ~PctLeq(call.events[k + 1], call.events[k])

\* The sum of the widths of the frames fs, from the first frame on.
RECURSIVE SumOfWidths(_)
SumOfWidths(fs) == IF fs = <<>> THEN 0 ELSE Head(fs).w + SumOfWidths(Tail(fs))

\* The largest height among the frames fs (fs not empty).
LargestHeight(fs) ==
    CHOOSE h \in {fs[k].h : k \in 1..Len(fs)} :
        \A k \in 1..Len(fs) : fs[k].h <= h

\* The call took the concatenation branch.
OnFallback == call.fallbackRuns = 1

\* C8: on the fallback path the canvas is as wide as the sum of the frame
\* widths and as high as the highest frame.
C8_CanvasSize ==
    OnFallback =>
        /\ call.composite =
              Some([cols |-> SumOfWidths(call.frames),
                    rows |-> LargestHeight(call.frames)])
        /\ DOMAIN call.canvas[1] =
              (0..(SumOfWidths(call.frames) - 1))
                 \X (0..(LargestHeight(call.frames) - 1))

C8_Witness ==
    /\ OnFallback /\ Done
    /\ Len(call.frames) = 3
    /\ call.frames[1].h # call.frames[2].h
    /\ call.frames[2].w # call.frames[3].w

Overlap(r, q) ==
    /\ r.x < q.x + q.w /\ q.x < r.x + r.w
    /\ r.y < q.y + q.h /\ q.y < r.y + r.h

\* C9: on the fallback path frame i is placed at x = the sum of the widths
\* of the frames before it and y = 0; the rectangles lie inside the canvas,
\* do not overlap and follow the capture order; the canvas holds every pixel
\* of every frame at its place; and taking a roi never fails, so every frame
\* of a call that reached the branch is placed.
C9_Placement ==
    OnFallback =>
        LET n == Len(call.frames)
            pl == call.placements
            cv == call.canvas[1]
            size == call.composite[1]
        IN /\ Len(pl) = n
           /\ call.errorMsg # Some(ErrRoi)
           /\ \A i \in 1..n :
                /\ pl[i] = [x |-> SumOfWidths(SubSeq(call.frames, 1, i - 1)),
                            y |-> 0, w |-> call.frames[i].w,
                            h |-> call.frames[i].h]
                /\ pl[i].x >= 0 /\ pl[i].x + pl[i].w <= size.cols
                /\ pl[i].y + pl[i].h <= size.rows
                /\ call.images[i].src = i - 1
                /\ \A px \in 0..(call.frames[i].w - 1),
                      py \in 0..(call.frames[i].h - 1) :
                        cv[<<pl[i].x + px, py>>] = <<i - 1, px, py>>
           /\ \A i, j \in 1..n :
                i < j => /\ ~Overlap(pl[i], pl[j])
                         /\ pl[i].x + pl[i].w <= pl[j].x

C9_Witness ==
    /\ OnFallback /\ Done /\ call.outcome = "resolved"
    /\ Len(call.placements) = 3
    /\ call.placements[3].x = 3
    /\ call.frames[1].h = 2

CaptureDone == cap.pc = "done"

\* The component was removed while a run of startCapture still had slots
\* to try.
Cancelled ==
    /\ cap.run >= 1
    /\ cap.unmountedAt >= 0 /\ cap.unmountedAt < FrameCount

FramesReport == Report("onFramesCaptured", cap.capturedFrames, "")

NotEnoughReport == Report("onError", <<>>, ErrNotEnough)

\* C11: a capture run that ends without having been cancelled holds at most
\* frameCount frames, in the order of the capture attempts that produced
\* them, and that sequence is the one it hands over.
C11_OrderedAndBounded ==
    (CaptureDone /\ ~Cancelled) =>
        LET fs == cap.capturedFrames
        IN /\ Len(fs) <= FrameCount
           /\ \A j, k \in 1..Len(fs) :
                 j < k => /\ RunOf(fs[j]) = cap.run /\ RunOf(fs[k]) = cap.run
                          /\ SlotOf(fs[j]) < SlotOf(fs[k])
           /\ \A r \in 1..Len(cap.reports) :
                 cap.reports[r].kind = "onFramesCaptured"
                     => cap.reports[r].frames = fs

C11_Witness ==
    /\ CaptureDone /\ ~Cancelled
    /\ cap.hits = 3
    /\ SlotOf(cap.capturedFrames[1]) = 1
    /\ SlotOf(cap.capturedFrames[3]) = FrameCount - 1

\* C12: when every capture attempt of a run returns an image, the run ends
\* with exactly frameCount (18) frames, one per slot, and hands exactly
\* that sequence to onFramesCaptured.
C12_AllSucceedGivesAll ==
    (CaptureDone /\ cap.hits = Len(cap.attempts)) =>
        /\ Len(cap.capturedFrames) = FrameCount
        /\ FrameCount = 18
        /\ cap.capturedFrames =
              [k \in 1..FrameCount |-> FrameId(cap.run, k - 1)]
        /\ cap.reports = <<FramesReport>>
        /\ frames = cap.capturedFrames

C12_Witness ==
    /\ CaptureDone
    /\ cap.hits = Len(cap.attempts)
    /\ Len(cap.capturedFrames) = 18

\* C13: the loop calls captureFrame once for each slot 0..frameCount-1 in
\* turn, frameCount times in all; an attempt that returns null adds
\* nothing and its slot is not tried again, so the sequence is as long as
\* the number of attempts that returned an image.
C13_OneAttemptPerSlot ==
    /\ cap.attempts = [k \in 1..Len(cap.attempts) |-> k - 1]
    /\ Len(cap.capturedFrames) = cap.hits
    /\ CaptureDone => Len(cap.attempts) = FrameCount

C13_Witness ==
    /\ CaptureDone
    /\ cap.hits = 2
    /\ SlotOf(cap.capturedFrames[1]) = 2
    /\ Len(cap.attempts) = FrameCount

\* C14: after the attempt of slot i the capture progress is
\* (i + 1) / frameCount (as a percentage), whether or not the attempt gave a
\* frame; within a run it only grows, it is 100% after the last attempt,
\* and no step of the capture changes the progress of the stitcher.
ProgressAfterAttempts ==
    /\ cap.pc \in {"capturing", "done"} =>
          cap.progress = Pct(Len(cap.attempts) * 100, FrameCount)
    /\ CaptureDone => cap.progress.num = 100 * cap.progress.den

ProgressStep ==
    /\ (cap'.run = cap.run /\ cap'.progress # cap.progress) =>
          cap.progress.num * cap'.progress.den
              < cap'.progress.num * cap.progress.den
    /\ Len(cap'.attempts) > Len(cap.attempts) => cap'.progress # cap.progress
    /\ cap' # cap => progress' = progress

C14_CaptureProgress == []ProgressAfterAttempts /\ [][ProgressStep]_vars

C14_Witness ==
    /\ CaptureDone
    /\ cap.hits = 0
    /\ cap.progress = Pct(1800, 18)

\* C15: when the loop has ended exactly one callback has been invoked:
\* onFramesCaptured with the sequence if it holds at least 2 frames, else
\* onError with the insufficient-frames message; the App never receives a
\* sequence of 0 or 1 frames.
C15_ExactlyOneOutcome ==
    /\ CaptureDone =>
          /\ Len(cap.reports) = 1
          /\ IF Len(cap.capturedFrames) >= 2
             THEN /\ cap.reports[1] = FramesReport
                  /\ frames = cap.capturedFrames
                  /\ app.state = "processing"
             ELSE /\ cap.reports[1] = NotEnoughReport
                  /\ app.error = Some(ErrNotEnough)
                  /\ app.state = "capturing"
    /\ \A r \in 1..Len(cap.reports) :
          cap.reports[r].kind = "onFramesCaptured"
              => Len(cap.reports[r].frames) >= 2
    /\ Len(frames) # 1

C15_Witness ==
    /\ CaptureDone
    /\ cap.hits = 1
    /\ cap.reports = <<NotEnoughReport>>

\* C24: every capture run starts from an empty sequence, in the component
\* state and in its own array, and every frame a run holds or hands over
\* was captured by that run, never by an earlier one.
OwnFrames(fs) == \A k \in 1..Len(fs) : RunOf(fs[k]) = cap.run

C24_NoResume ==
    /\ cap.pc = "countdown" =>
          /\ cap.frames = <<>>
          /\ cap.capturedFrames = <<>>
    /\ OwnFrames(cap.capturedFrames)
    /\ OwnFrames(cap.frames)
    /\ \A r \in 1..Len(cap.reports) : OwnFrames(cap.reports[r].frames)

C24_Witness ==
    /\ cap.run = 2
    /\ CaptureDone
    /\ cap.hits = 2
    /\ cap.reports = <<FramesReport>>
    /\ frames = cap.capturedFrames

\* C31: in one instance of the capture component at most one startCapture
\* call is in its countdown or its capture loop at any time: a call can
\* only begin when no call of the instance is running, and while one runs
\* the capture button is not rendered.
LoopsOf(n) == {k \in DOMAIN cap.loops : cap.loops[k].inst = n}

RunningOf(n) == {k \in LoopsOf(n) : Running(cap.loops[k])}

OneLoopPerInstance ==
    /\ \A n \in 1..MaxRuns : Cardinality(RunningOf(n)) <= 1
    /\ (cap.mounted /\ RunningOf(cap.inst) # {}) => ~ButtonShown(cap)

StartsWhenQuiet ==
    Len(cap'.loops) > Len(cap.loops) => RunningOf(cap.inst) = {}

C31_OneLoopAtATime == []OneLoopPerInstance /\ [][StartsWhenQuiet]_vars

C31_Witness ==
    /\ Len(cap.loops) = 2
    /\ cap.loops[1].inst = cap.loops[2].inst
    /\ cap.loops[1].pc = "done"
    /\ cap.loops[2].pc = "capturing"
    /\ cap.loops[2].i = 2

\* C32: a startCapture call made while the camera is not active reports
\* 'Camera not ready' to the App and changes nothing else: isCapturing
\* stays false, no countdown starts, progress and the frame lists keep
\* their values, no capture attempt is made and the App stays in its
\* state. A run only begins with the camera active.
NotReadyReport == <<Report("onError", <<>>, ErrCameraNotReady)>>

NotReadyStep ==
    (cap'.reports # cap.reports /\ cap'.reports = NotReadyReport) =>
        /\ ~cap.isActive
        /\ cap' = [cap EXCEPT !.reports = NotReadyReport]
        /\ ~cap'.isCapturing
        /\ cap'.countdown = None
        /\ cap'.attempts = cap.attempts
        /\ frames' = frames
        /\ app' = handleError(app, ErrCameraNotReady)
        /\ app'.state = app.state

RunNeedsCamera == cap'.run # cap.run => cap.isActive

C32_NotReadyOnlyReports == [][NotReadyStep]_vars /\ [][RunNeedsCamera]_vars

C32_Witness ==
    /\ cap.reports = NotReadyReport
    /\ cap.mounted
    /\ ~cap.isActive
    /\ cap.pc = "idle"
    /\ ~cap.isCapturing
    /\ cap.countdown = None
    /\ app.error = Some(ErrCameraNotReady)

\* C33: a load of the library, once started, ends; it ends with isLoaded
\* true and a library handle, or with one of the load errors; isLoading is
\* false then; and an instance whose load failed starts no other load by
\* itself.
LoadErrors == {Some(ErrScript), Some(ErrInitTimeout), Some(ErrLoadTimeout)}

LoadPending == stitcher.opencv.pc # "idle"

LoadEnded ==
    LET h == stitcher.opencv
    IN (h.attempts > 0 /\ h.pc = "idle") =>
          /\ ~h.isLoading
          /\ \/ h.isLoaded /\ h.cv # None /\ h.error = None
             \/ ~h.isLoaded /\ h.error \in LoadErrors
          /\ h.attempts = 1

NoReloadStep ==
    stitcher'.opencv.attempts > stitcher.opencv.attempts =>
        /\ stitcher.opencv.error = None
        /\ stitcher.opencv.attempts = 0

C33_LoadTerminates ==
    /\ []LoadEnded
    /\ [][NoReloadStep]_vars
    /\ \A n \in 1..MaxRuns :
          (stitcher.opencv.inst = n /\ LoadPending)
              ~> (stitcher.opencv.inst = n => ~LoadPending)

C33_Witness ==
    /\ stitcher.opencv.inst = 2
    /\ stitcher.opencv.attempts = 1
    /\ stitcher.opencv.pc = "idle"
    /\ stitcher.opencv.error = Some(ErrLoadTimeout)
    /\ ~stitcher.opencv.isLoading
    /\ stitcher.opencv.script = "failed"

\* C34: at most one startCamera call is at an await at any time and
\* isRequestingRef is set exactly while one is; a call made meanwhile
\* throws 'Camera request already in progress' and changes neither the
\* stream nor anything else of the hook; the step in which a pending call
\* ends, resolved or failed, clears the flag, and calls are only accepted
\* with no call pending.
OneRequest ==
    /\ Len(cap.cameraHook.pending) <= 1
    /\ cap.cameraHook.isRequesting <=> cap.cameraHook.pending # <<>>

BusyStep ==
    (cap'.cameraHook.outcome = ErrBusy /\ cap.cameraHook.outcome # ErrBusy)
        => /\ cap.cameraHook.pending # <<>>
           /\ cap'.cameraHook = [cap.cameraHook EXCEPT !.outcome = ErrBusy]

RequestStep ==
    /\ cap'.cameraHook.accepted > cap.cameraHook.accepted =>
          cap.cameraHook.pending = <<>>
    /\ Len(cap'.cameraHook.pending) < Len(cap.cameraHook.pending) =>
          /\ ~cap'.cameraHook.isRequesting
          /\ cap'.cameraHook.outcome # ErrBusy

C34_OneCameraRequest ==
    []OneRequest /\ [][BusyStep]_vars /\ [][RequestStep]_vars

C34_Witness ==
    /\ cap.cameraHook.accepted = 2
    /\ cap.cameraHook.pending = <<"play">>
    /\ cap.cameraHook.outcome = ErrBusy
    /\ cap.cameraHook.stream = Some(2)
    /\ cap.cameraHook.live = {2}
    /\ cap.cameraHook.isRequesting

\* C35: a stitchFrames call rejected by its entry checks (library not
\* loaded, fewer than 2 frames) leaves isStitching, progress and the error
\* of the hook as they were and schedules no progress reset.
EntryErrors == {Some(ErrNotLoaded), Some(ErrTooFew)}

RejectedStep ==
    (call' # call /\ call'.outcome = "rejected"
                  /\ call'.errorMsg \in EntryErrors) =>
        /\ call'.pc = "done"
        /\ call'.events = <<>>
        /\ isStitching' = isStitching
        /\ progress' = progress
        /\ error' = error
        /\ timers' = timers

C35_RejectedLeavesState == [][RejectedStep]_vars

C35_Witness ==
    /\ call.outcome = "rejected"
    /\ call.errorMsg = Some(ErrTooFew)
    /\ cvLoaded
    /\ isStitching
    /\ progress = Some(DetectingEvent)
    /\ error = Some(ErrFrameLoad)
    /\ Len(frames) = 1

\* C25: a captureFrame call made while the video element or the canvas is
\* missing, or while the video is not in HAVE_ENOUGH_DATA, returns null and
\* changes nothing: the canvas keeps its size and what is drawn on it. A
\* call returns an image exactly in the case the capture loop's
\* captureFrame stands for, so the loop skips the slot of every such call.
NotReady(cam) ==
    ~cam.video \/ ~cam.canvas \/ cam.readyState # "HAVE_ENOUGH_DATA"

NullCallStep ==
    (cap'.camera.tick # cap.camera.tick /\ NotReady(cap.camera)) =>
        /\ cap'.camera.result = None
        /\ cap'.camera = [cap.camera EXCEPT !.tick = ~cap.camera.tick,
                                            !.result = None]

ReturnsAgree ==
    LET cam == cap.camera
        here == CaptureFrameCall(cam).result
        loop == captureFrame(cam.video /\ cam.canvas,
                             cam.readyState = "HAVE_ENOUGH_DATA"
                                 /\ cam.contextOk, 0)
    IN /\ (here = None) <=> (loop = None)
       /\ NotReady(cam) => Collect(<<>>, loop) = <<>>

C25_NullWithoutEffect == []ReturnsAgree /\ [][NullCallStep]_vars

C25_Witness ==
    /\ cap.camera.result = None
    /\ cap.camera.drawn # None
    /\ cap.camera.canvas
    /\ cap.camera.readyState = "HAVE_CURRENT_DATA"
    /\ cap.camera.tick = FALSE

\* C16 (as stated): once the capture is cancelled after k < frameCount
\* attempts (the component is removed), no further attempt is made: the run
\* stays at k attempts and at most k frames.
C16_CancelStopsLoop ==
    Cancelled => /\ Len(cap.attempts) = cap.unmountedAt
                 /\ Len(cap.capturedFrames) <= cap.unmountedAt

\* C17: the countdown comes first: setCountdown is called with 3, 2, 1, 0
\* and null in that order, only 3, 2 and 1 are ever on display, and while a
\* countdown value is set no capture attempt was made and no frame was
\* added; every attempt is made after the countdown was cleared.
CountdownCalls == <<Some(3), Some(2), Some(1), Some(0), None>>

C17_CountdownFirst ==
    /\ Len(cap.countdownLog) <= Len(CountdownCalls)
    /\ cap.countdownLog = SubSeq(CountdownCalls, 1, Len(cap.countdownLog))
    /\ cap.countdown \in {None, Some(3), Some(2), Some(1)}
    /\ (cap.countdown # None \/ cap.pc = "countdown") =>
          /\ cap.attempts = <<>>
          /\ cap.capturedFrames = <<>>
          /\ cap.frames = <<>>
    /\ cap.attempts # <<>> =>
          /\ cap.countdownLog = CountdownCalls
          /\ cap.countdown = None

C17_Witness ==
    /\ cap.pc = "capturing"
    /\ Len(cap.attempts) = 1
    /\ cap.countdownLog = CountdownCalls
    /\ cap.hits = 1

\* ------------------------------------- the claims about the whole stitch
\* C18: a stitchFrames call that fails, at whatever step (entry check,
\* decoding, stitching, resize or encoding), hands no panorama to its
\* caller, onStitched is not invoked for it, and the step in which it fails
\* leaves the panorama and the state of the App as they were.
FailedDeliversNothing ==
    call.outcome = "rejected" =>
        /\ call.panorama = None
        /\ call.delivered = "onError"
        /\ call.errorMsg # None

FailingStep ==
    (call'.outcome = "rejected" /\ call' # call) =>
        /\ app'.panorama = app.panorama
        /\ app'.state = app.state
        /\ app'.error = call'.errorMsg

C18_AllOrNothing == []FailedDeliversNothing /\ [][FailingStep]_vars

C18_Witness ==
    /\ Done /\ call.outcome = "rejected"
    /\ call.errorMsg = Some(ErrProjection)
    /\ app.panorama # None
    /\ app.state = "viewing"

\* C19 (as stated): at most one stitchFrames call of the capture session
\* being processed is pending at any time.
CurrentCalls == {k \in 1..Len(stitcher.calls) : stitcher.calls[k].current}

C19_OneStitchAtATime == Cardinality(CurrentCalls) <= 1

\* C20: every stitchFrames call that starts decoding eventually ends, and
\* ends in exactly one of two ways: its caller received a panorama, after
\* the 'complete' event, through onStitched, or an error through onError;
\* given that every image load eventually fires onload or onerror.
Terminal ==
    /\ Done
    /\ \/ /\ call.outcome = "resolved"
          /\ call.panorama # None /\ call.errorMsg = None
          /\ call.delivered = "onStitched"
          /\ call.events[Len(call.events)] = CompleteEvent
       \/ /\ call.outcome = "rejected"
          /\ call.panorama = None /\ call.errorMsg # None
          /\ call.delivered = "onError"

C20_Terminates ==
    /\ [](Done => Terminal)
    /\ (call.pc = "decoding") ~> Terminal

C20_Witness ==
    /\ Terminal
    /\ call.outcome = "resolved"
    /\ Len(call.images) = 3
    /\ timers = 2

\* ------------------------------------ the claims about order and cleanup
\* C21: frames are decoded one at a time in capture order: while a call
\* decodes, the frame it waits for is the one after those already loaded;
\* the k-th loaded image is the k-th frame of the list; and the images the
\* stitcher or the concatenation work on are in that order, the
\* concatenation placing them left to right.
C21_CaptureOrder ==
    /\ call.pc = "decoding" => call.i = Len(call.images)
    /\ Len(call.images) <= Len(call.frames)
    /\ \A k \in 1..Len(call.images) :
          /\ call.images[k].src = k - 1
          /\ call.images[k].cols = call.frames[k].w
          /\ call.images[k].rows = call.frames[k].h
    /\ (call.featureAttempts > 0 \/ call.fallbackRuns > 0) =>
          Len(call.images) = Len(call.frames)
    /\ \A k \in 1..Len(call.placements) :
          /\ call.placements[k].w = call.images[k].cols
          /\ call.canvas[1][<<call.placements[k].x, 0>>][1] = k - 1
          /\ k > 1 => call.placements[k - 1].x < call.placements[k].x

C21_Witness ==
    /\ Done /\ call.outcome = "resolved"
    /\ OnFallback
    /\ Len(call.placements) = 3
    /\ call.frames[1] # call.frames[2]
    /\ call.frames[2] # call.frames[3]

\* C26 (as stated): when a stitchFrames call has ended, by return or by
\* throw, every Mat it created has been deleted.
C26_BuffersReleased == Done => call.live = {}

\* C27 (as stated): a call that has ended leaves isStitching false, and the
\* reset of the progress that a call scheduled never clears the progress of
\* a call started after it: while a call decodes, its progress is shown.
C27_ResetOnlyOwnProgress ==
    /\ Done => ~isStitching
    /\ call.pc = "decoding" => progress # None

\* C28 (as stated): a call in which 2 or more frames decoded does not fail
\* because one other frame did not decode.
C28_OneBadFrameTolerated ==
    (Done /\ Len(call.images) >= 2) =>
        call.errorMsg \notin {Some(ErrFrameLoad), Some(ErrImread)}

\* C29 (as stated): a call that emitted the 'complete' event returns a
\* panorama; none fails after reporting 'complete'.
EmittedComplete ==
    \E k \in 1..Len(call.events) : call.events[k] = CompleteEvent

C29_CompleteMeansSuccess ==
    (Done /\ EmittedComplete) => call.outcome = "resolved"

\* ------------------------------------------------ the claims about the App
\* C22 (as stated): the state of the App only moves idle -> capturing ->
\* processing -> viewing and viewing -> idle.
AllowedMoves ==
    {<<"idle", "capturing">>, <<"capturing", "processing">>,
     <<"processing", "viewing">>, <<"viewing", "idle">>}

C22_StateMachine ==
    [][app'.state # app.state => <<app.state, app'.state>> \in AllowedMoves]_vars

\* C23: a step that reports an error to the App (handleError) changes only
\* the error on display: the state of the App, its frames and its panorama
\* stay as they were, so a stored panorama survives the error.
ErrorStep ==
    (app'.error # app.error /\ app'.error # None) =>
        /\ app'.state = app.state
        /\ app'.panorama = app.panorama
        /\ frames' = frames

C23_ErrorKeepsData == [][ErrorStep]_vars

C23_Witness ==
    /\ app.state = "viewing"
    /\ app.panorama # None
    /\ app.error # None
    /\ Len(frames) >= 2

\* C30: whenever the App is in 'viewing' it holds a panorama; and the step
\* of a new-capture request ends in 'idle' with no frames, no panorama and
\* no error.
ViewingHasPanorama == app.state = "viewing" => app.panorama # None

NewCaptureStep ==
    (app.state = "viewing" /\ app'.state = "idle") =>
        /\ frames' = <<>>
        /\ app'.panorama = None
        /\ app'.error = None

C30_ViewingAndReset == []ViewingHasPanorama /\ [][NewCaptureStep]_vars

C30_Witness ==
    /\ app.state = "idle"
    /\ frames = <<>> /\ app.panorama = None /\ app.error = None
    /\ Len(stitcher.calls) = 1

====
